---- MODULE Spec2Model ----
(***************************************************************************)
(* A model of the sql-chain engine of src/sqlchain/chain.go: the chain     *)
(* state, the block index, the query index, the bucketed store and the     *)
(* runtime (turns, pending block, stop channel).                           *)
(*                                                                         *)
(* Hashes of blocks are sequences of integers (the zero hash is <<>>);     *)
(* header hashes of responses and acks are positive integers.  Times are   *)
(* integer ticks.                                                          *)
(***************************************************************************)
EXTENDS Integers, Sequences, FiniteSets, TLC

VARIABLES
    chain,          \* "none" or "open": whether a *Chain has been returned
    db,             \* the committed content of the bolt store
    state,          \* c.state: [node, Head, Height]
    nodes,          \* the blockNode objects allocated so far; node ids are indices
    bi,             \* c.bi: block hash -> node id
    qi,             \* c.qi: [resps, acks]
    ChainInitTime,  \* c.rt.ChainInitTime
    NextTurn,       \* c.rt.NextTurn
    pendingBlock,   \* c.rt.pendingBlock
    stopCh,         \* c.rt.stopCh: "open" or "closed"
    isMyTurn,       \* c.isMyTurn
    panicked,       \* TRUE once a goroutine has panicked
    ret,            \* the last call made and the error it returned
    pc,             \* control point of each concurrent caller
    loc,            \* locals of each concurrent caller
    allocated,      \* blockNode objects allocated since the store was created
    clock           \* the coordinated chain time, r.Now()

vars == <<chain, db, state, nodes, bi, qi, ChainInitTime, NextTurn, pendingBlock,
          stopCh, isMyTurn, panicked, ret, pc, loc, allocated, clock>>

memVars == <<state, nodes, bi, qi>>
rtVars == <<ChainInitTime, NextTurn, pendingBlock, stopCh>>
procVars == <<pc, loc>>

---------------------------------------------------------------------------
\* Bounds of the model.
MaxNodes == 3       \* blockNode objects allocated over the life of a store
MaxTurn == 3        \* NextTurn is not advanced beyond this
MaxQueries == 2     \* length of the pending block's Queries

\* Configuration (cfg.Period, cfg.QueryTTL, the genesis timestamp) and zero values.
Period == 2
QueryTTL == 1
GenesisTime == 0
ZeroTime == -4
NoNode == 0
ZeroHash == <<>>
EmptyFn == [x \in {} |-> 0]

Put(f, k, v) == (k :> v) @@ f

---------------------------------------------------------------------------
\* Blocks.

\* The hash a block's header packs to: the parent's hash followed by the
\* timestamp and the list of queries (collision free).
HashOf(parent, ts, queries) == parent \o <<ts, Len(queries)>> \o queries

MkBlock(parent, ts, queries, genesis, signed) ==
    [ParentHash |-> parent, Timestamp |-> ts, Queries |-> queries,
     GenesisHash |-> genesis, BlockHash |-> HashOf(parent, ts, queries),
     signed |-> signed]

\* cfg.Genesis
Genesis == MkBlock(ZeroHash, GenesisTime, <<>>, ZeroHash, TRUE)

\* Block.Verify / SignedHeader.Verify: the signature and the self-hash hold.
Verify(b) == b.signed /\ b.BlockHash = HashOf(b.ParentHash, b.Timestamp, b.Queries)

\* SignedHeader.VerifyAsGenesis
VerifyAsGenesis(b) == Verify(b) /\ b.ParentHash = ZeroHash

\* Block.PackAndSignBlock
PackAndSignBlock(b) ==
    [b EXCEPT !.BlockHash = HashOf(b.ParentHash, b.Timestamp, b.Queries), !.signed = TRUE]

\* Config.GetHeightFromTime
GetHeightFromTime(t) == (t - Genesis.Timestamp) \div Period

---------------------------------------------------------------------------
\* Block nodes and the block index.

newBlockNode(ns, b, parent) ==
    [hash |-> b.BlockHash,
     height |-> IF parent = NoNode THEN 0 ELSE ns[parent].height + 1,
     parent |-> parent,
     block |-> b]

indexKey(n) == <<n.height>> \o n.hash

AddBlock(index, hash, id) == Put(index, hash, id)
HasBlock(index, hash) == hash \in DOMAIN index
LookupNode(index, hash) == IF hash \in DOMAIN index THEN index[hash] ELSE NoNode

\* blockNode.ancestor: the node at height h on the parent chain of n, or none
\* when h is above n or below genesis.
RECURSIVE ancestor(_, _, _)
ancestor(ns, n, h) ==
    IF n = NoNode THEN NoNode
    ELSE IF h > ns[n].height \/ h < 0 THEN NoNode
    ELSE IF ns[n].height = h THEN n
    ELSE ancestor(ns, ns[n].parent, h)

---------------------------------------------------------------------------
\* The query index.

NoResp == [HeaderHash |-> 0, ReqTimestamp |-> 0, Timestamp |-> 0, signed |-> FALSE]
NoAck == [HeaderHash |-> 0, Response |-> NoResp, Timestamp |-> 0, signed |-> FALSE]

NewQueryIndex == [resps |-> EmptyFn, acks |-> EmptyFn]

\* QueryIndex.AddResponse: [err, qi]
AddResponse(q, h, resp) ==
    LET k == <<h, resp.HeaderHash>> IN
    IF k \in DOMAIN q.resps
    THEN IF q.resps[k].header = resp
         THEN [err |-> "nil", qi |-> q]
         ELSE [err |-> "MultipleResponses", qi |-> q]
    ELSE [err |-> "nil",
          qi |-> [q EXCEPT !.resps = Put(@, k, [header |-> resp, ack |-> 0])]]

\* QueryIndex.AddAck: [err, qi]
AddAck(q, h, ack) ==
    LET rk == <<h, ack.Response.HeaderHash>>
        ak == <<h, ack.HeaderHash>>
        old == IF rk \in DOMAIN q.resps THEN q.resps[rk].ack ELSE 0
        blocks == IF ak \in DOMAIN q.acks THEN q.acks[ak].blocks ELSE {}
    IN  IF old # 0 /\ old # ack.HeaderHash
        THEN [err |-> "MultipleAcks", qi |-> q]
        ELSE [err |-> "nil",
              qi |-> [resps |-> Put(q.resps, rk,
                                    [header |-> ack.Response, ack |-> ack.HeaderHash]),
                      acks |-> Put(q.acks, ak, [ack |-> ack, blocks |-> blocks])]]

\* QueryIndex.SetSignedBlock
RECURSIVE SetSignedBlockFrom(_, _, _, _)
SetSignedBlockFrom(q, h, b, i) ==
    IF i > Len(b.Queries) THEN q
    ELSE LET ak == <<h, b.Queries[i]>>
             old == IF ak \in DOMAIN q.acks THEN q.acks[ak]
                    ELSE [ack |-> NoAck, blocks |-> {}]
         IN  SetSignedBlockFrom(
                 [q EXCEPT !.acks = Put(@, ak,
                      [old EXCEPT !.blocks = @ \cup {b.BlockHash}])],
                 h, b, i + 1)

SetSignedBlock(q, h, b) == SetSignedBlockFrom(q, h, b, 1)

\* QueryIndex.CheckAckFromBlock: [ok, err]
CheckAckFromBlock(q, h, blockHash, ackHash) ==
    LET ak == <<h, ackHash>> IN
    IF ak \notin DOMAIN q.acks
    THEN [ok |-> FALSE, err |-> "nil"]
    ELSE IF q.acks[ak].blocks \ {blockHash} # {}
         THEN [ok |-> q.acks[ak].ack # NoAck, err |-> "MultipleAcksInBlocks"]
         ELSE [ok |-> q.acks[ak].ack # NoAck, err |-> "nil"]

\* QueryIndex.GetAck: [ack, err]
GetAck(q, h, ackHash) ==
    LET ak == <<h, ackHash>> IN
    IF ak \in DOMAIN q.acks /\ q.acks[ak].ack # NoAck
    THEN [ack |-> q.acks[ak].ack, err |-> "nil"]
    ELSE [ack |-> NoAck, err |-> "AckNotFound"]

---------------------------------------------------------------------------
\* The chain engine.  Its methods transform the store and the in-memory
\* indexes, passed as one record c = [db, state, nodes, bi, qi].
\*
\* A store transaction (db.Update) runs its closure and then commits.  The
\* fault f chosen for a call says where the store fails: "put" (a Put in the
\* closure returns an error and the transaction is rolled back), "commit"
\* (the closure returns nil and the commit fails), or "none".

Cur == [db |-> db, state |-> state, nodes |-> nodes, bi |-> bi, qi |-> qi]

StoreFaults == {"none", "put", "commit"}

\* State.MarshalBinary: Head and Height are written, the node pointer is not.
MarshalState(st) == [Head |-> st.Head, Height |-> st.Height]

\* Chain.PushBlock up to the transaction: the node and the State are built
\* from c.state.node as read here, and encoded.
PushBlockPrepare(c, b) ==
    [h |-> GetHeightFromTime(b.Timestamp),
     node |-> newBlockNode(c.nodes, b, c.state.node),
     b |-> b]

\* Chain.PushBlock, the transaction: the closure puts the state and the block
\* and then updates c.state, c.bi and c.qi; the commit follows the closure.
PushBlockUpdate(c, p, f) ==
    LET id == Len(c.nodes) + 1
        st == [node |-> id, Head |-> p.node.hash, Height |-> p.node.height]
        mem == [c EXCEPT !.state = st,
                         !.nodes = Append(@, p.node),
                         !.bi = AddBlock(@, p.node.hash, id),
                         !.qi = SetSignedBlock(@, p.h, p.b)]
    IN  CASE f = "put" -> [err |-> "StoreFailure", c |-> c]
          [] f = "commit" -> [err |-> "StoreFailure", c |-> mem]
          [] OTHER ->
               [err |-> "nil",
                c |-> [mem EXCEPT !.db.state = <<MarshalState(st)>>,
                                  !.db.blocks = Put(@, indexKey(p.node), p.b)]]

\* Chain.PushBlock: [err, c]
PushBlock(c, b, f) == PushBlockUpdate(c, PushBlockPrepare(c, b), f)

\* The error of the first query of b that CheckAckFromBlock rejects.
CheckQueries(q, h, b) ==
    IF \E i \in 1..Len(b.Queries) :
           CheckAckFromBlock(q, h, b.BlockHash, b.Queries[i]).err # "nil"
    THEN "MultipleAcksInBlocks"
    ELSE "nil"

\* CheckAndPushNewBlock with the signature verified after the push.
CheckAndPushNewBlockVerifiesLast(c, b, f) ==
    LET h == GetHeightFromTime(b.Timestamp) IN
    IF b.ParentHash # c.state.Head THEN [err |-> "InvalidBlock", c |-> c]
    ELSE IF HasBlock(c.bi, b.BlockHash) THEN [err |-> "BlockExists", c |-> c]
    ELSE IF h # c.state.Height + 1 THEN [err |-> "BlockTimestampOutOfPeriod", c |-> c]
    ELSE IF CheckQueries(c.qi, h, b) # "nil" THEN [err |-> CheckQueries(c.qi, h, b), c |-> c]
    ELSE IF ~Verify(b) THEN [err |-> "VerifyFailed", c |-> PushBlock(c, b, f).c]
    ELSE PushBlock(c, b, f)

\* Chain.CheckAndPushNewBlock: [err, c]
CheckAndPushNewBlock(c, b, f) ==
    LET h == GetHeightFromTime(b.Timestamp) IN
    IF b.ParentHash # c.state.Head THEN [err |-> "InvalidBlock", c |-> c]
    ELSE IF HasBlock(c.bi, b.BlockHash) THEN [err |-> "BlockExists", c |-> c]
    ELSE IF h # c.state.Height + 1 THEN [err |-> "BlockTimestampOutOfPeriod", c |-> c]
    ELSE IF CheckQueries(c.qi, h, b) # "nil" THEN [err |-> CheckQueries(c.qi, h, b), c |-> c]
    ELSE IF ~Verify(b) THEN [err |-> "VerifyFailed", c |-> c]
    ELSE PushBlock(c, b, f)

ProduceFaults == {"none", "key", "sign", "put", "commit"}

\* Chain.ProduceBlock: [err, c, pb]
ProduceBlock(c, pb, parent, now, f) ==
    LET pb1 == [pb EXCEPT !.ParentHash = parent, !.Timestamp = now]
        pb2 == PackAndSignBlock(pb1)
        r == PushBlock(c, pb2, f)
    IN  CASE f = "key" -> [err |-> "KeyFailure", c |-> c, pb |-> pb]
          [] f = "sign" -> [err |-> "SignFailure", c |-> c, pb |-> pb1]
          [] OTHER -> [err |-> r.err, c |-> r.c, pb |-> pb2]

\* The nil *ct.Block.
NoBlock == MkBlock(ZeroHash, ZeroTime, <<>>, ZeroHash, FALSE)

\* What b.UnmarshalBinary(v) does when called on the nil b of FetchBlock: it
\* dereferences b and panics, or it returns (an error or nil) leaving b nil.
Decodes == {"panic", "error", "nil"}

\* Chain.FetchBlock: [b, err, panic].  The result b is never allocated: the
\* bytes of the block are decoded into the nil pointer.
FetchBlock(c, height, o) ==
    IF c.state.node = NoNode
    THEN [b |-> NoBlock, err |-> "nil", panic |-> TRUE]
    ELSE LET n == ancestor(c.nodes, c.state.node, height) IN
         IF n = NoNode
         THEN [b |-> NoBlock, err |-> "nil", panic |-> FALSE]
         ELSE [b |-> NoBlock,
               err |-> IF o = "error" THEN "DecodeFailure" ELSE "nil",
               panic |-> (o = "panic")]

\* close(r.stopCh): closing a closed channel panics.
Close(ch) == [ch |-> "closed", panic |-> (ch = "closed")]

\* The pending block NewChain and LoadChain build.
NewPendingBlock ==
    [ParentHash |-> Genesis.BlockHash, Timestamp |-> ZeroTime, Queries |-> <<>>,
     GenesisHash |-> Genesis.BlockHash, BlockHash |-> ZeroHash, signed |-> FALSE]

\* The State NewChain builds before it pushes the genesis block.
NewState == [node |-> NoNode, Head |-> Genesis.GenesisHash, Height |-> -1]

NewStore == [state |-> <<>>, blocks |-> EmptyFn, resps |-> EmptyFn, acks |-> EmptyFn]

---------------------------------------------------------------------------
\* Calls made one at a time.

Running == chain = "open" /\ ~panicked

\* Room for one more blockNode.
CanPush == allocated < MaxNodes

Install(c) ==
    /\ allocated' = allocated + (Len(c.nodes) - Len(nodes))
    /\ db' = c.db
    /\ state' = c.state
    /\ nodes' = c.nodes
    /\ bi' = c.bi
    /\ qi' = c.qi

Returns(op, err) == ret' = [op |-> op, err |-> err]

NewChainFaults == {"none", "open", "put", "commit"}

\* NewChain without the verification of the genesis block.
NewChainSkipsVerify(g, f) ==
    /\ chain = "none"
    /\ ~panicked
    /\ LET c0 == [db |-> db, state |-> NewState, nodes |-> <<>>,
                  bi |-> EmptyFn, qi |-> NewQueryIndex]
           r == PushBlock(c0, g, f)
       IN  IF f = "open"
           THEN /\ Returns("NewChain", "StoreFailure")
                /\ UNCHANGED <<chain, db, memVars, rtVars, allocated>>
           ELSE IF r.err # "nil"
           THEN /\ Returns("NewChain", r.err)
                /\ UNCHANGED <<chain, db, memVars, rtVars, allocated>>
           ELSE /\ Returns("NewChain", "nil")
                /\ chain' = "open"
                /\ Install(r.c)
                /\ ChainInitTime' = g.Timestamp
                /\ NextTurn' = 1
                /\ pendingBlock' = NewPendingBlock
                /\ stopCh' = "open"
    /\ UNCHANGED <<isMyTurn, panicked, procVars, clock>>

\* NewChain(cfg)
NewChain(g, f) ==
    /\ chain = "none"
    /\ ~panicked
    /\ LET c0 == [db |-> db, state |-> NewState, nodes |-> <<>>,
                  bi |-> EmptyFn, qi |-> NewQueryIndex]
           r == PushBlock(c0, g, f)
       IN  IF ~VerifyAsGenesis(g)
           THEN /\ Returns("NewChain", "VerifyFailed")
                /\ UNCHANGED <<chain, db, memVars, rtVars, allocated>>
           ELSE IF f = "open"
           THEN /\ Returns("NewChain", "StoreFailure")
                /\ UNCHANGED <<chain, db, memVars, rtVars, allocated>>
           ELSE IF r.err # "nil"
           THEN /\ Returns("NewChain", r.err)
                /\ UNCHANGED <<chain, db, memVars, rtVars, allocated>>
           ELSE /\ Returns("NewChain", "nil")
                /\ chain' = "open"
                /\ Install(r.c)
                /\ ChainInitTime' = g.Timestamp
                /\ NextTurn' = 1
                /\ pendingBlock' = NewPendingBlock
                /\ stopCh' = "open"
    /\ UNCHANGED <<isMyTurn, panicked, procVars, clock>>

\* Timestamps fall in the period after the head's and in the one after that.
TimeOfHeight(h) == Genesis.Timestamp + h * Period
BlockTimes == {TimeOfHeight(state.Height + 1), TimeOfHeight(state.Height + 2)}
\* The blocks offered to PushBlock and CheckAndPushNewBlock.
BlockQueries == {<<>>, <<1>>}
OfferedBlocks ==
    {MkBlock(p, t, q, Genesis.BlockHash, s) :
        p \in {state.Head, Genesis.BlockHash}, t \in BlockTimes,
        q \in BlockQueries, s \in BOOLEAN}

\* c.PushBlock(b), called directly
CallPushBlock(b, f) ==
    /\ Running
    /\ CanPush
    /\ b.signed
    /\ LET r == PushBlock(Cur, b, f) IN
        /\ Install(r.c)
        /\ Returns("PushBlock", r.err)
    /\ UNCHANGED <<chain, rtVars, isMyTurn, panicked, procVars, clock>>

\* c.CheckAndPushNewBlock(b)
CallCheckAndPushNewBlock(b, f) ==
    /\ Running
    /\ CanPush
    /\ LET r == CheckAndPushNewBlock(Cur, b, f) IN
        /\ Install(r.c)
        /\ Returns("CheckAndPushNewBlock", r.err)
    /\ UNCHANGED <<chain, rtVars, isMyTurn, panicked, procVars, clock>>

\* c.ProduceBlock(parent, now)
CallProduceBlock(parent, now, f) ==
    /\ Running
    /\ CanPush
    /\ LET r == ProduceBlock(Cur, pendingBlock, parent, now, f) IN
        /\ Install(r.c)
        /\ pendingBlock' = r.pb
        /\ Returns("ProduceBlock", r.err)
    /\ UNCHANGED <<chain, ChainInitTime, NextTurn, stopCh, isMyTurn, panicked, procVars, clock>>

\* The return of RunCurrentTurn to BlockProducingCycle, when the call was made
\* from the loop: the loop is back at its select.
TurnDone ==
    /\ pc' = [p \in DOMAIN pc |-> IF pc[p] = "turn" THEN "select" ELSE pc[p]]
    /\ loc' = loc

\* RunCurrentTurn with SetNextTurn called at the end of the body instead of
\* deferred: the early return of a turn that is not this node's skips it.
RunCurrentTurnAdvancesAtEnd(now, f) ==
    /\ Running
    /\ CanPush
    /\ NextTurn < MaxTurn
    /\ IF ~isMyTurn
       THEN /\ Returns("RunCurrentTurn", "NotMyTurn")
            /\ UNCHANGED <<db, memVars, NextTurn, pendingBlock, stopCh, panicked, allocated>>
       ELSE LET r == ProduceBlock(Cur, pendingBlock, state.Head, now, f)
                s == Close(stopCh)
            IN  /\ Install(r.c)
                /\ pendingBlock' = r.pb
                /\ NextTurn' = NextTurn + 1
                /\ Returns("RunCurrentTurn", r.err)
                /\ IF r.err # "nil"
                   THEN stopCh' = s.ch /\ panicked' = s.panic
                   ELSE UNCHANGED <<stopCh, panicked>>
    /\ TurnDone
    /\ UNCHANGED <<chain, ChainInitTime, isMyTurn, clock>>

\* c.RunCurrentTurn(now): the deferred SetNextTurn runs however the body ends,
\* also when c.Stop() panics.
RunCurrentTurn(now, f) ==
    /\ Running
    /\ CanPush
    /\ NextTurn < MaxTurn
    /\ NextTurn' = NextTurn + 1
    /\ IF ~isMyTurn
       THEN /\ Returns("RunCurrentTurn", "NotMyTurn")
            /\ UNCHANGED <<db, memVars, pendingBlock, stopCh, panicked, allocated>>
       ELSE LET r == ProduceBlock(Cur, pendingBlock, state.Head, now, f)
                s == Close(stopCh)
            IN  /\ Install(r.c)
                /\ pendingBlock' = r.pb
                /\ Returns("RunCurrentTurn", r.err)
                /\ IF r.err # "nil"
                   THEN stopCh' = s.ch /\ panicked' = s.panic
                   ELSE UNCHANGED <<stopCh, panicked>>
    /\ TurnDone
    /\ UNCHANGED <<chain, ChainInitTime, isMyTurn, clock>>

\* c.Stop()
Stop ==
    /\ Running
    /\ LET s == Close(stopCh) IN
        /\ stopCh' = s.ch
        /\ panicked' = s.panic
    /\ Returns("Stop", "nil")
    /\ UNCHANGED <<chain, db, memVars, ChainInitTime, NextTurn, pendingBlock,
                   isMyTurn, procVars, clock, allocated>>

\* The test hook that decides IsMyTurn().
SetIsMyTurn(v) ==
    /\ Running
    /\ v # isMyTurn
    /\ isMyTurn' = v
    /\ Returns("SetIsMyTurn", "nil")
    /\ UNCHANGED <<chain, db, memVars, rtVars, panicked, procVars, clock, allocated>>

Init ==
    /\ chain = "none"
    /\ db = NewStore
    /\ state = NewState
    /\ nodes = <<>>
    /\ bi = EmptyFn
    /\ qi = NewQueryIndex
    /\ ChainInitTime = ZeroTime
    /\ NextTurn = 1
    /\ pendingBlock = NewPendingBlock
    /\ stopCh = "open"
    /\ isMyTurn = FALSE
    /\ panicked = FALSE
    /\ ret = [op |-> "none", err |-> "nil"]
    /\ pc = EmptyFn
    /\ loc = EmptyFn
    /\ allocated = 0
    /\ clock = GenesisTime

\* The block engine: chains are built and blocks pushed, checked and produced.
Next ==
    \/ \E g \in {Genesis, [Genesis EXCEPT !.signed = FALSE]}, f \in NewChainFaults :
           NewChain(g, f)
    \/ \E b \in OfferedBlocks, f \in StoreFaults : CallPushBlock(b, f)
    \/ \E b \in OfferedBlocks, f \in StoreFaults : CallCheckAndPushNewBlock(b, f)
    \/ \E p \in {state.Head}, t \in BlockTimes, f \in ProduceFaults :
           CallProduceBlock(p, t, f)

Spec == Init /\ [][Next]_vars

---------------------------------------------------------------------------
\* Turns and stopping.

\* Runtime.SetNextTurn, called directly
SetNextTurn ==
    /\ Running
    /\ NextTurn < MaxTurn
    /\ NextTurn' = NextTurn + 1
    /\ Returns("SetNextTurn", "nil")
    /\ UNCHANGED <<chain, db, memVars, ChainInitTime, pendingBlock, stopCh,
                   isMyTurn, panicked, procVars, clock, allocated>>

Construct ==
    \E g \in {Genesis, [Genesis EXCEPT !.signed = FALSE]}, f \in NewChainFaults :
        NewChain(g, f)

\* The producer's turns, with Stop called from outside at any moment.
NextTurns ==
    \/ Construct
    \/ \E t \in BlockTimes, f \in ProduceFaults : RunCurrentTurn(t, f)
    \/ Stop
    \/ \E v \in BOOLEAN : SetIsMyTurn(v)

SpecTurn == Init /\ [][NextTurns]_vars

---------------------------------------------------------------------------
\* Queries: responses and acks pushed into the chain.

\* Response and ack header hashes are numbers made of the timestamps that
\* tell the headers apart; TimeSpan is above every timestamp offered.
TimeSpan == TimeOfHeight(MaxTurn + 2)

MkResponse(reqTs, ts, signed) ==
    [HeaderHash |-> reqTs * TimeSpan + ts, ReqTimestamp |-> reqTs,
     Timestamp |-> ts, signed |-> signed]

MkAck(resp, ts, signed) ==
    [HeaderHash |-> resp.HeaderHash * TimeSpan + ts, Response |-> resp,
     Timestamp |-> ts, signed |-> signed]

\* The responses offered answer a request made in period 1: one in that
\* period, one in the period after it.  Each has two different acks.
OfferedResponses ==
    {MkResponse(TimeOfHeight(1) + d, TimeOfHeight(1) + d + 1, s) :
        d \in {0, Period - 1}, s \in BOOLEAN}

OfferedAcks ==
    {MkAck(r, r.Timestamp + d, s) :
        r \in {x \in OfferedResponses : x.signed}, d \in {0, 1}, s \in BOOLEAN}

\* Chain.PushResponedQuery: [err, c]
PushResponedQuery(c, resp, f) ==
    LET h == GetHeightFromTime(resp.ReqTimestamp)
        k == <<h, resp.HeaderHash>>
        r == AddResponse(c.qi, h, resp)
        mem == [c EXCEPT !.qi = r.qi]
    IN  CASE f = "put" -> [err |-> "StoreFailure", c |-> c]
          [] r.err # "nil" -> [err |-> r.err, c |-> mem]
          [] f = "commit" -> [err |-> "StoreFailure", c |-> mem]
          [] OTHER -> [err |-> "nil", c |-> [mem EXCEPT !.db.resps = Put(@, k, resp)]]

\* PushAckedQuery with the error of AddAck dropped.
PushAckedQueryDropsAddAckError(c, pb, mine, ack, f) ==
    LET h == GetHeightFromTime(ack.Response.Timestamp)
        k == <<h, ack.HeaderHash>>
        r == AddAck(c.qi, h, ack)
        mem == [c EXCEPT !.qi = r.qi]
        pb1 == IF mine THEN [pb EXCEPT !.Queries = Append(@, ack.HeaderHash)] ELSE pb
    IN  CASE f = "put" -> [err |-> "StoreFailure", c |-> c, pb |-> pb]
          [] f = "commit" -> [err |-> "StoreFailure", c |-> mem, pb |-> pb1]
          [] OTHER -> [err |-> "nil", c |-> [mem EXCEPT !.db.acks = Put(@, k, ack)],
                       pb |-> pb1]

\* PushAckedQuery with the ack appended to the pending block before AddAck.
PushAckedQueryAppendsFirst(c, pb, mine, ack, f) ==
    LET h == GetHeightFromTime(ack.Response.Timestamp)
        k == <<h, ack.HeaderHash>>
        r == AddAck(c.qi, h, ack)
        mem == [c EXCEPT !.qi = r.qi]
        pb1 == IF mine THEN [pb EXCEPT !.Queries = Append(@, ack.HeaderHash)] ELSE pb
    IN  CASE f = "put" -> [err |-> "StoreFailure", c |-> c, pb |-> pb]
          [] r.err # "nil" -> [err |-> r.err, c |-> mem, pb |-> pb1]
          [] f = "commit" -> [err |-> "StoreFailure", c |-> mem, pb |-> pb1]
          [] OTHER -> [err |-> "nil", c |-> [mem EXCEPT !.db.acks = Put(@, k, ack)],
                       pb |-> pb1]

\* PushAckedQuery writing the ack to the store only, the index left as it was.
PushAckedQueryStoreOnly(c, pb, mine, ack, f) ==
    LET h == GetHeightFromTime(ack.Response.Timestamp)
        k == <<h, ack.HeaderHash>>
        r == AddAck(c.qi, h, ack)
        pb1 == IF mine THEN [pb EXCEPT !.Queries = Append(@, ack.HeaderHash)] ELSE pb
    IN  CASE f = "put" -> [err |-> "StoreFailure", c |-> c, pb |-> pb]
          [] r.err # "nil" -> [err |-> r.err, c |-> c, pb |-> pb]
          [] f = "commit" -> [err |-> "StoreFailure", c |-> c, pb |-> pb1]
          [] OTHER -> [err |-> "nil", c |-> [c EXCEPT !.db.acks = Put(@, k, ack)],
                       pb |-> pb1]

\* Chain.PushAckedQuery: [err, c, pb]
PushAckedQuery(c, pb, mine, ack, f) ==
    LET h == GetHeightFromTime(ack.Response.Timestamp)
        k == <<h, ack.HeaderHash>>
        r == AddAck(c.qi, h, ack)
        mem == [c EXCEPT !.qi = r.qi]
        pb1 == IF mine THEN [pb EXCEPT !.Queries = Append(@, ack.HeaderHash)] ELSE pb
    IN  CASE f = "put" -> [err |-> "StoreFailure", c |-> c, pb |-> pb]
          [] r.err # "nil" -> [err |-> r.err, c |-> mem, pb |-> pb]
          [] f = "commit" -> [err |-> "StoreFailure", c |-> mem, pb |-> pb1]
          [] OTHER -> [err |-> "nil", c |-> [mem EXCEPT !.db.acks = Put(@, k, ack)],
                       pb |-> pb1]

\* queryTimeIsExpired with the bound one turn too low.
queryTimeIsExpiredOneTurnLate(t, nextTurn) ==
    GetHeightFromTime(t) < nextTurn - QueryTTL - 1

\* Chain.queryTimeIsExpired
queryTimeIsExpired(t, nextTurn) == GetHeightFromTime(t) < nextTurn - QueryTTL

\* Chain.VerifyAndPushResponsedQuery: [err, c]
VerifyAndPushResponsedQuery(c, nextTurn, resp, f) ==
    IF queryTimeIsExpired(resp.Timestamp, nextTurn) THEN [err |-> "QueryExpired", c |-> c]
    ELSE IF ~resp.signed THEN [err |-> "VerifyFailed", c |-> c]
    ELSE PushResponedQuery(c, resp, f)

\* Chain.VerifyAndPushAckedQuery: [err, c, pb]
VerifyAndPushAckedQuery(c, pb, mine, nextTurn, ack, f) ==
    IF queryTimeIsExpired(ack.Response.Timestamp, nextTurn)
    THEN [err |-> "QueryExpired", c |-> c, pb |-> pb]
    ELSE IF ~ack.signed THEN [err |-> "VerifyFailed", c |-> c, pb |-> pb]
    ELSE PushAckedQuery(c, pb, mine, ack, f)

\* Room in the pending block for one more query.
CanAppend == ~isMyTurn \/ Len(pendingBlock.Queries) < MaxQueries

\* c.PushResponedQuery(resp)
CallPushResponedQuery(resp, f) ==
    /\ Running
    /\ resp.signed
    /\ LET r == PushResponedQuery(Cur, resp, f) IN
        /\ Install(r.c)
        /\ Returns("PushResponedQuery", r.err)
    /\ UNCHANGED <<chain, rtVars, isMyTurn, panicked, procVars, clock>>

\* c.PushAckedQuery(ack)
CallPushAckedQuery(ack, f) ==
    /\ Running
    /\ CanAppend
    /\ ack.signed
    /\ LET r == PushAckedQuery(Cur, pendingBlock, isMyTurn, ack, f) IN
        /\ Install(r.c)
        /\ pendingBlock' = r.pb
        /\ Returns("PushAckedQuery", r.err)
    /\ UNCHANGED <<chain, ChainInitTime, NextTurn, stopCh, isMyTurn, panicked, procVars, clock>>

\* c.VerifyAndPushResponsedQuery(resp)
CallVerifyAndPushResponsedQuery(resp, f) ==
    /\ Running
    /\ LET r == VerifyAndPushResponsedQuery(Cur, NextTurn, resp, f) IN
        /\ Install(r.c)
        /\ Returns("VerifyAndPushResponsedQuery", r.err)
    /\ UNCHANGED <<chain, rtVars, isMyTurn, panicked, procVars, clock>>

\* c.VerifyAndPushAckedQuery(ack)
CallVerifyAndPushAckedQuery(ack, f) ==
    /\ Running
    /\ CanAppend
    /\ LET r == VerifyAndPushAckedQuery(Cur, pendingBlock, isMyTurn, NextTurn, ack, f) IN
        /\ Install(r.c)
        /\ pendingBlock' = r.pb
        /\ Returns("VerifyAndPushAckedQuery", r.err)
    /\ UNCHANGED <<chain, ChainInitTime, NextTurn, stopCh, isMyTurn, panicked, procVars, clock>>

\* Queries arrive while the turns advance.
NextQuery ==
    \/ Construct
    \/ \E r \in OfferedResponses, f \in StoreFaults : CallPushResponedQuery(r, f)
    \/ \E a \in OfferedAcks, f \in StoreFaults : CallPushAckedQuery(a, f)
    \/ \E r \in OfferedResponses, f \in StoreFaults : CallVerifyAndPushResponsedQuery(r, f)
    \/ \E a \in OfferedAcks, f \in StoreFaults : CallVerifyAndPushAckedQuery(a, f)
    \/ SetNextTurn

SpecQuery == Init /\ [][NextQuery]_vars

\* Chain.FetchAckedQuery: [ack, err]
FetchAckedQuery(c, height, header) == GetAck(c.qi, height, header)

\* Queries pushed while the node may be the producer of the turn.
NextPending ==
    \/ Construct
    \/ \E r \in OfferedResponses, f \in StoreFaults : CallPushResponedQuery(r, f)
    \/ \E a \in OfferedAcks, f \in StoreFaults : CallPushAckedQuery(a, f)
    \/ \E v \in BOOLEAN : SetIsMyTurn(v)

SpecPending == Init /\ [][NextPending]_vars

\* The producer of the turns: acks are pushed and blocks produced from the
\* pending block.
ProducerAcks == {a \in OfferedAcks : a.signed /\ a.Timestamp = a.Response.Timestamp}

NextProduce ==
    \/ Construct
    \/ \E a \in ProducerAcks : CallPushAckedQuery(a, "none")
    \/ \E v \in BOOLEAN : SetIsMyTurn(v)
    \/ \E f \in ProduceFaults : CallProduceBlock(state.Head, TimeOfHeight(state.Height + 1), f)

SpecProduce == Init /\ [][NextProduce]_vars

---------------------------------------------------------------------------
\* Restart: LoadChain rebuilds a chain from the store a former run left.

\* The keys of the blocks bucket in the order ForEach visits them: ascending
\* height, blocks of one height in the order of their hash bytes (any order).
IsKeyOrder(order, keys) ==
    /\ Len(order) = Cardinality(keys)
    /\ {order[i] : i \in 1..Len(order)} = keys
    /\ \A i \in 1..Len(order) - 1 : order[i][1] <= order[i + 1][1]

KeyOrders(keys) ==
    {order \in [1..Cardinality(keys) -> keys] : IsKeyOrder(order, keys)}

\* The blocks loop of LoadChain: the error it ends with.  index is chain.bi,
\* which the loop reads and never writes; last is the hash of the block read
\* before (ZeroHash: none).
RECURSIVE LoadBlocks(_, _, _, _, _)
LoadBlocks(blocks, order, i, last, index) ==
    IF i > Len(order) THEN "nil"
    ELSE LET block == blocks[order[i]] IN
         IF last = ZeroHash
         THEN IF ~VerifyAsGenesis(block) THEN "VerifyFailed"
              ELSE LoadBlocks(blocks, order, i + 1, block.BlockHash, index)
         ELSE IF block.ParentHash = last
         THEN IF ~Verify(block) THEN "VerifyFailed"
              ELSE LoadBlocks(blocks, order, i + 1, block.BlockHash, index)
         ELSE IF LookupNode(index, block.BlockHash) = NoNode THEN "ParentNotFound"
              ELSE LoadBlocks(blocks, order, i + 1, block.BlockHash, index)

\* The least key of a non-empty set of <<height, header hash>> keys.
MinKey(keys) ==
    CHOOSE k \in keys : \A o \in keys : k[1] < o[1] \/ (k[1] = o[1] /\ k[2] <= o[2])

\* The queries loop of LoadChain: every stored response, then every stored
\* ack, is added to the query index under the height of its bucket.
RECURSIVE LoadResponses(_, _, _)
LoadResponses(q, resps, keys) ==
    IF keys = {} THEN [err |-> "nil", qi |-> q]
    ELSE LET k == MinKey(keys)
             r == AddResponse(q, k[1], resps[k])
         IN  IF r.err # "nil" THEN r ELSE LoadResponses(r.qi, resps, keys \ {k})

RECURSIVE LoadAcks(_, _, _)
LoadAcks(q, acks, keys) ==
    IF keys = {} THEN [err |-> "nil", qi |-> q]
    ELSE LET k == MinKey(keys)
             r == AddAck(q, k[1], acks[k])
         IN  IF r.err # "nil" THEN r ELSE LoadAcks(r.qi, acks, keys \ {k})

LoadQueries(store) ==
    LET r == LoadResponses(NewQueryIndex, store.resps, DOMAIN store.resps) IN
    IF r.err # "nil" THEN r ELSE LoadAcks(r.qi, store.acks, DOMAIN store.acks)

LoadFaults == {"none", "open"}

\* LoadChain(cfg), in a process started on an existing store
LoadChain(f) ==
    /\ chain \in {"open", "failed"}
    /\ db.state # <<>>
    /\ \E order \in KeyOrders(DOMAIN db.blocks) :
         LET berr == LoadBlocks(db.blocks, order, 1, ZeroHash, EmptyFn)
             q == LoadQueries(db)
             err == IF f = "open" THEN "StoreFailure"
                    ELSE IF berr # "nil" THEN berr ELSE q.err
         IN  /\ Returns("LoadChain", err)
             /\ IF err # "nil"
                THEN /\ chain' = "failed"
                     /\ state' = NewState
                     /\ qi' = NewQueryIndex
                ELSE /\ chain' = "open"
                     /\ state' = [node |-> NoNode, Head |-> db.state[1].Head,
                                  Height |-> db.state[1].Height]
                     /\ qi' = q.qi
    /\ nodes' = <<>>
    /\ bi' = EmptyFn
    /\ ChainInitTime' = ZeroTime
    /\ NextTurn' = 1
    /\ pendingBlock' = NewPendingBlock
    /\ stopCh' = "open"
    /\ isMyTurn' = FALSE
    /\ panicked' = FALSE
    /\ UNCHANGED <<db, procVars, clock, allocated>>

NextRestart ==
    \/ Next
    \/ \E f \in LoadFaults : LoadChain(f)

SpecRestart == Init /\ [][NextRestart]_vars

---------------------------------------------------------------------------
\* Reading blocks back.

FetchHeights == -1 .. (state.Height + 1)

\* c.FetchBlock(height)
CallFetchBlock(height, o) ==
    /\ Running
    /\ LET r == FetchBlock(Cur, height, o) IN
        /\ ret' = [op |-> "FetchBlock", err |-> r.err, b |-> r.b, height |-> height]
        /\ panicked' = r.panic
    /\ UNCHANGED <<chain, db, memVars, rtVars, isMyTurn, procVars, clock, allocated>>

NextFetch ==
    \/ Next
    \/ \E h \in FetchHeights, o \in Decodes : CallFetchBlock(h, o)

SpecFetch == Init /\ [][NextFetch]_vars

---------------------------------------------------------------------------
\* Concurrent callers.  CheckAndPushNewBlock runs in the goroutines of the RPC
\* handlers and ProduceBlock in the producer's; chain.go takes no lock around
\* c.state, so the reads of one call interleave with the transactions of the
\* others.  The store serialises the transactions themselves.

Callers == {"rpc"}
Producer == "producer"
Procs == Callers \cup {Producer}

NoLocals == [h |-> 0, node |-> newBlockNode(<<>>, Genesis, NoNode), b |-> Genesis]

\* The chain NewChain returns: every variable but the callers' positions.
Constructed(mine) ==
    LET c0 == [db |-> NewStore, state |-> NewState, nodes |-> <<>>,
               bi |-> EmptyFn, qi |-> NewQueryIndex]
        r == PushBlock(c0, Genesis, "none")
    IN  /\ chain = "open"
        /\ db = r.c.db
        /\ state = r.c.state
        /\ nodes = r.c.nodes
        /\ bi = r.c.bi
        /\ qi = r.c.qi
        /\ ChainInitTime = Genesis.Timestamp
        /\ NextTurn = 1
        /\ pendingBlock = NewPendingBlock
        /\ stopCh = "open"
        /\ isMyTurn = mine
        /\ panicked = FALSE
        /\ ret = [op |-> "NewChain", err |-> "nil"]
        /\ allocated = 1
        /\ clock = Genesis.Timestamp

\* The chain NewChain returns, with every caller idle.
InitConc ==
    /\ Constructed(TRUE)
    /\ pc = [p \in Procs |-> "idle"]
    /\ loc = [p \in Procs |-> NoLocals]

Goto(p, l) == pc' = [pc EXCEPT ![p] = l]

\* CheckAndPushNewBlock, line 512: the parent must be the head.
CheckParent(p, b) ==
    /\ pc[p] = "idle"
    /\ CanPush
    /\ IF b.ParentHash # state.Head
       THEN /\ Returns("CheckAndPushNewBlock", "InvalidBlock")
            /\ UNCHANGED <<pc, loc>>
       ELSE /\ Goto(p, "checks")
            /\ loc' = [loc EXCEPT ![p] = [NoLocals EXCEPT !.b = b]]
            /\ UNCHANGED ret
    /\ UNCHANGED <<chain, clock, db, memVars, rtVars, isMyTurn, panicked, allocated>>

\* CheckRest without the look-up of the block's hash in the index.
CheckRestSkipsHasBlock(p) ==
    /\ pc[p] = "checks"
    /\ LET b == loc[p].b
           h == GetHeightFromTime(b.Timestamp)
           err == IF h # state.Height + 1 THEN "BlockTimestampOutOfPeriod"
                  ELSE IF CheckQueries(qi, h, b) # "nil" THEN CheckQueries(qi, h, b)
                  ELSE IF ~Verify(b) THEN "VerifyFailed"
                  ELSE "nil"
       IN  IF err # "nil"
           THEN /\ Returns("CheckAndPushNewBlock", err)
                /\ Goto(p, "idle")
           ELSE /\ Goto(p, "prepare")
                /\ UNCHANGED ret
    /\ UNCHANGED <<chain, clock, db, memVars, rtVars, isMyTurn, panicked, loc, allocated>>

\* CheckAndPushNewBlock, lines 520-547: existence, period, queries, signature.
CheckRest(p) ==
    /\ pc[p] = "checks"
    /\ LET b == loc[p].b
           h == GetHeightFromTime(b.Timestamp)
           err == IF HasBlock(bi, b.BlockHash) THEN "BlockExists"
                  ELSE IF h # state.Height + 1 THEN "BlockTimestampOutOfPeriod"
                  ELSE IF CheckQueries(qi, h, b) # "nil" THEN CheckQueries(qi, h, b)
                  ELSE IF ~Verify(b) THEN "VerifyFailed"
                  ELSE "nil"
       IN  IF err # "nil"
           THEN /\ Returns("CheckAndPushNewBlock", err)
                /\ Goto(p, "idle")
           ELSE /\ Goto(p, "prepare")
                /\ UNCHANGED ret
    /\ UNCHANGED <<chain, clock, db, memVars, rtVars, isMyTurn, panicked, loc, allocated>>

\* RunCurrentTurn line 640 and ProduceBlock lines 607-620: the pending block
\* takes the head read by the caller as its parent and is signed.
SignPending(now) ==
    /\ pc[Producer] = "idle"
    /\ CanPush
    /\ LET r == ProduceBlock(Cur, pendingBlock, state.Head, now, "sign")
           b == PackAndSignBlock(r.pb)
       IN  /\ pendingBlock' = b
           /\ loc' = [loc EXCEPT ![Producer] = [NoLocals EXCEPT !.b = b]]
    /\ Goto(Producer, "prepare")
    /\ UNCHANGED <<chain, clock, db, memVars, ChainInitTime, NextTurn, stopCh, isMyTurn,
                   panicked, ret, allocated>>

\* PushBlock, lines 384-399
Prepare(p) ==
    /\ pc[p] = "prepare"
    /\ loc' = [loc EXCEPT ![p] = PushBlockPrepare(Cur, loc[p].b)]
    /\ Goto(p, "update")
    /\ UNCHANGED <<chain, clock, db, memVars, rtVars, isMyTurn, panicked, ret, allocated>>

\* PushBlock, lines 402-417: the transaction
Update(p, f) ==
    /\ pc[p] = "update"
    /\ LET r == PushBlockUpdate(Cur, loc[p], f) IN
        /\ Install(r.c)
        /\ Returns(IF p = Producer THEN "ProduceBlock" ELSE "CheckAndPushNewBlock", r.err)
    /\ Goto(p, "idle")
    /\ UNCHANGED <<chain, clock, rtVars, isMyTurn, panicked, loc>>

NextConc ==
    \/ \E p \in Callers, b \in OfferedBlocks : CheckParent(p, b)
    \/ \E p \in Callers : CheckRest(p)
    \/ \E t \in BlockTimes : SignPending(t)
    \/ \E p \in Procs : Prepare(p)
    \/ \E p \in Procs, f \in StoreFaults : Update(p, f)

SpecConc == InitConc /\ [][NextConc]_vars

---------------------------------------------------------------------------
\* Acks pushed while a block is produced.  ProduceBlock signs c.rt.pendingBlock
\* and hands the same object to PushBlock; PushAckedQuery, in the goroutine of
\* an RPC handler, appends to it inside its own store transaction.  Nothing
\* but the store's writer lock orders the two.

InitSign ==
    /\ Constructed(TRUE)
    /\ pc = (Producer :> "idle")
    /\ loc = (Producer :> NoLocals)

\* ProduceBlock, lines 614-620: parent and timestamp are set and the block signed.
SignBlock(now) ==
    /\ pc[Producer] = "idle"
    /\ CanPush
    /\ pendingBlock' = PackAndSignBlock(
                           [pendingBlock EXCEPT !.ParentHash = state.Head, !.Timestamp = now])
    /\ pc' = (Producer :> "encode")
    /\ UNCHANGED <<chain, clock, db, memVars, ChainInitTime, NextTurn, stopCh, isMyTurn,
                   panicked, ret, loc, allocated>>

\* PushBlock, lines 384-399: the node is built and the block encoded, from the
\* pending block as it is now.
EncodeBlock ==
    /\ pc[Producer] = "encode"
    /\ loc' = (Producer :> PushBlockPrepare(Cur, pendingBlock))
    /\ pc' = (Producer :> "update")
    /\ UNCHANGED <<chain, clock, db, memVars, rtVars, isMyTurn, panicked, ret, allocated>>

\* PushBlock, lines 402-417: the transaction puts the bytes encoded before;
\* SetSignedBlock reads the Queries of the block through the pointer.
UpdateBlock(f) ==
    /\ pc[Producer] = "update"
    /\ LET p == loc[Producer]
           r == PushBlockUpdate(Cur, [p EXCEPT !.b = pendingBlock], f)
           c == IF r.err = "nil"
                THEN [r.c EXCEPT !.db.blocks = Put(db.blocks, indexKey(p.node), p.b)]
                ELSE r.c
       IN  /\ Install(c)
           /\ Returns("ProduceBlock", r.err)
    /\ pc' = (Producer :> "idle")
    /\ UNCHANGED <<chain, clock, rtVars, isMyTurn, panicked, loc>>

NextSign ==
    \/ \E t \in BlockTimes : SignBlock(t)
    \/ EncodeBlock
    \/ \E f \in StoreFaults : UpdateBlock(f)
    \/ \E a \in ProducerAcks, f \in StoreFaults : CallPushAckedQuery(a, f)

SpecSign == InitSign /\ [][NextSign]_vars

---------------------------------------------------------------------------
\* The producer loop.  Chain.Start runs BlockProducingCycle in one goroutine;
\* Stop and the test hook are called from others, and time passes.

Loop == "loop"
TimeResolution == 1

\* The last tick at which the loop may start a sleep; a sleep in progress when
\* the stop is signalled is let run to its end.
ClockEnd == TimeOfHeight(MaxTurn) - 2

\* The chain NewChain returns, with Start about to be called.
InitLoop ==
    /\ Constructed(FALSE)
    /\ pc = (Loop :> "start")
    /\ loc = (Loop :> [t |-> Genesis.Timestamp, wake |-> Genesis.Timestamp])

\* TillNextTurn without the clamp to TimeResolution.
TillNextTurnUnclamped(t) == (ChainInitTime + NextTurn * Period) - t

\* Runtime.TillNextTurn: the duration to the next turn, at most TimeResolution
TillNextTurn(t) ==
    LET d == (ChainInitTime + NextTurn * Period) - t
    IN  IF d > TimeResolution THEN TimeResolution ELSE d

LoopFrame ==
    UNCHANGED <<chain, db, memVars, rtVars, isMyTurn, panicked, ret, allocated, clock>>

\* Chain.Start: Sync returns nil and the cycle begins.
Start ==
    /\ Running
    /\ pc[Loop] = "start"
    /\ pc' = (Loop :> "select")
    /\ UNCHANGED loc
    /\ LoopFrame

\* BlockProducingCycle: the select on c.rt.stopCh
LoopSelect ==
    /\ Running
    /\ pc[Loop] = "select"
    /\ pc' = (Loop :> IF stopCh = "closed" THEN "returned" ELSE "till")
    /\ UNCHANGED loc
    /\ LoopFrame

\* BlockProducingCycle: the default case reads the time and the duration.
LoopTill ==
    /\ Running
    /\ pc[Loop] = "till"
    /\ LET d == TillNextTurn(clock) IN
         IF d > 0
         THEN /\ pc' = (Loop :> "sleep")
              /\ loc' = (Loop :> [t |-> clock, wake |-> clock + d])
         ELSE /\ pc' = (Loop :> "turn")
              /\ loc' = (Loop :> [t |-> clock, wake |-> clock])
    /\ LoopFrame

\* BlockProducingCycle: time.Sleep(d) returns when d has passed.
LoopWake ==
    /\ Running
    /\ pc[Loop] = "sleep"
    /\ clock >= loc[Loop].wake
    /\ pc' = (Loop :> "select")
    /\ UNCHANGED loc
    /\ LoopFrame

\* BlockProducingCycle: c.RunCurrentTurn(t)
LoopTurn(f) ==
    /\ pc[Loop] = "turn"
    /\ RunCurrentTurn(loc[Loop].t, f)

\* A tick of the clock.
Tick ==
    /\ Running
    /\ \/ clock < ClockEnd
       \/ stopCh = "closed" /\ pc[Loop] = "sleep" /\ clock < loc[Loop].wake
    /\ clock' = clock + 1
    /\ UNCHANGED <<chain, db, memVars, rtVars, isMyTurn, panicked, ret, procVars,
                   allocated>>

LoopStep ==
    \/ Start
    \/ LoopSelect
    \/ LoopTill
    \/ LoopWake
    \/ \E f \in ProduceFaults : LoopTurn(f)

NextLoop ==
    \/ LoopStep
    \/ Tick
    \/ Stop
    \/ \E v \in BOOLEAN : SetIsMyTurn(v)

SpecLoop == InitLoop /\ [][NextLoop]_vars

\* The goroutine of the loop is scheduled and time passes.
SpecLoopFair == SpecLoop /\ WF_vars(LoopStep) /\ WF_vars(Tick)

---------------------------------------------------------------------------
\* The Runtime lock.  Runtime embeds a sync.RWMutex; each goroutine is followed
\* through the accesses it makes to the Runtime fields, with the lock it holds
\* at each.  An access lasts from the step that begins it to the step that
\* ends it, so two accesses overlap when two goroutines are inside one.

Syncer == "sync"
Rpc == "rpc"
Stopper == "stopper"
Goroutines == {Loop, Rpc, Syncer, Stopper}

InitLock ==
    /\ Constructed(TRUE)
    /\ pc = [p \in Goroutines |-> "idle"]
    /\ loc = [p \in Goroutines |-> [held |-> "none", v |-> 0]]

\* r.Lock() and r.RLock() return when the lock is free for the mode asked.
CanLock == \A q \in Goroutines : loc[q].held = "none"
CanRLock == \A q \in Goroutines : loc[q].held # "exclusive"

At(p, l, held, v) ==
    /\ pc' = [pc EXCEPT ![p] = l]
    /\ loc' = [loc EXCEPT ![p] = [held |-> held, v |-> v]]

LockFrame == UNCHANGED <<chain, db, memVars, ChainInitTime, pendingBlock, isMyTurn, allocated>>

\* TillNextTurn calls r.Now(): RLock, then the read of Offset.
NowRLock ==
    /\ Running
    /\ pc[Loop] = "idle"
    /\ CanRLock
    /\ At(Loop, "rOffset", "shared", 0)
    /\ LockFrame
    /\ UNCHANGED <<NextTurn, stopCh, panicked, ret, clock>>

\* r.Now() returns (RUnlock); TillNextTurn goes on to read ChainInitTime,
\* NextTurn and Period with no lock held.
NowRUnlock ==
    /\ Running
    /\ pc[Loop] = "rOffset"
    /\ At(Loop, "rNextTurn", "none", NextTurn)
    /\ LockFrame
    /\ UNCHANGED <<NextTurn, stopCh, panicked, ret, clock>>

\* TillNextTurn returns d; the loop sleeps or runs the turn, which ends in the
\* deferred SetNextTurn.  A read that overlaps a write sees either value.
TillReturn(v) ==
    /\ Running
    /\ pc[Loop] = "rNextTurn"
    /\ v \in {loc[Loop].v, NextTurn}
    /\ IF (ChainInitTime + v * Period) - clock > 0
       THEN At(Loop, "idle", "none", 0)
       ELSE At(Loop, "lock", "none", 0)
    /\ LockFrame
    /\ UNCHANGED <<NextTurn, stopCh, panicked, ret, clock>>

\* SetNextTurn: r.Lock()
SetNextTurnLock ==
    /\ Running
    /\ pc[Loop] = "lock"
    /\ NextTurn < MaxTurn
    /\ CanLock
    /\ At(Loop, "wNextTurn", "exclusive", 0)
    /\ LockFrame
    /\ UNCHANGED <<NextTurn, stopCh, panicked, ret, clock>>

\* SetNextTurn: r.NextTurn++ and the deferred r.Unlock()
SetNextTurnWrite ==
    /\ Running
    /\ pc[Loop] = "wNextTurn"
    /\ NextTurn' = NextTurn + 1
    /\ At(Loop, "idle", "none", 0)
    /\ LockFrame
    /\ UNCHANGED <<stopCh, panicked, ret, clock>>

\* queryTimeIsExpired begins its read of c.rt.NextTurn, with no lock.
ExpiryRead ==
    /\ Running
    /\ pc[Rpc] = "idle"
    /\ At(Rpc, "rNextTurn", "none", NextTurn)
    /\ LockFrame
    /\ UNCHANGED <<NextTurn, stopCh, panicked, ret, clock>>

\* queryTimeIsExpired(t) returns.
ExpiryReturn(t, v) ==
    /\ Running
    /\ pc[Rpc] = "rNextTurn"
    /\ v \in {loc[Rpc].v, NextTurn}
    /\ Returns("queryTimeIsExpired", IF queryTimeIsExpired(t, v) THEN "QueryExpired" ELSE "nil")
    /\ At(Rpc, "idle", "none", 0)
    /\ LockFrame
    /\ UNCHANGED <<NextTurn, stopCh, panicked, clock>>

\* UpdateTime: r.Lock()
UpdateTimeLock ==
    /\ Running
    /\ pc[Syncer] = "idle"
    /\ clock < ClockEnd
    /\ CanLock
    /\ At(Syncer, "wOffset", "exclusive", 0)
    /\ LockFrame
    /\ UNCHANGED <<NextTurn, stopCh, panicked, ret, clock>>

\* UpdateTime(now): r.Offset is set so that r.Now() is now; r.Unlock()
UpdateTimeWrite(now) ==
    /\ Running
    /\ pc[Syncer] = "wOffset"
    /\ clock' = now
    /\ At(Syncer, "idle", "none", 0)
    /\ LockFrame
    /\ UNCHANGED <<NextTurn, stopCh, panicked, ret>>

\* Runtime.Stop is entered, with no lock.
StopEnter ==
    /\ Running
    /\ pc[Stopper] = "idle"
    /\ At(Stopper, "close", "none", 0)
    /\ LockFrame
    /\ UNCHANGED <<NextTurn, stopCh, panicked, ret, clock>>

\* Runtime.Stop: close(r.stopCh)
StopClose ==
    /\ Running
    /\ pc[Stopper] = "close"
    /\ LET s == Close(stopCh) IN
        /\ stopCh' = s.ch
        /\ panicked' = s.panic
    /\ Returns("Stop", "nil")
    /\ At(Stopper, "done", "none", 0)
    /\ LockFrame
    /\ UNCHANGED <<NextTurn, clock>>

NextLock ==
    \/ NowRLock
    \/ NowRUnlock
    \/ \E v \in 1..MaxTurn : TillReturn(v)
    \/ SetNextTurnLock
    \/ SetNextTurnWrite
    \/ ExpiryRead
    \/ \E t \in {TimeOfHeight(1), TimeOfHeight(2)}, v \in 1..MaxTurn : ExpiryReturn(t, v)
    \/ UpdateTimeLock
    \/ \E now \in {clock + 1, clock + Period} : UpdateTimeWrite(now)
    \/ StopEnter
    \/ StopClose

SpecLock == InitLock /\ [][NextLock]_vars

---------------------------------------------------------------------------
\* Claims about the block engine.

PushOps == {"PushBlock", "PushResponedQuery", "PushAckedQuery"}

\* C1: when the store transaction of push_block, push_responded_query or
\* push_acked_query does not commit, the in-memory state, the block index, the
\* query index and the pending block's Queries are what they were before the call.
C1_MemoryUntouchedWithoutCommit ==
    [][(ret'.op \in PushOps /\ ret'.err = "StoreFailure")
          => (/\ state' = state
              /\ bi' = bi
              /\ qi' = qi
              /\ pendingBlock'.Queries = pendingBlock.Queries)]_vars

\* The nodes the block index holds.
Indexed == {bi[h] : h \in DOMAIN bi}

\* Each height of the blocks bucket holds one block.
OneBlockPerHeight ==
    \A k1, k2 \in DOMAIN db.blocks : k1[1] = k2[1] => k1 = k2

\* C2: under any interleaving of check_and_push_new_block and produce_block
\* calls, every committed push raises state.Height by exactly 1 over the Height
\* in force at its commit, the parent of the pushed node is the head at its
\* commit, and no two different blocks are committed at the same height.
C2_SerializedHeadUpdates ==
    [][/\ \A p \in Procs :
              (pc[p] = "update" /\ pc'[p] = "idle" /\ ret'.err = "nil")
                  => (/\ state'.Height = state.Height + 1
                      /\ nodes'[state'.node].parent = state.node)
       /\ OneBlockPerHeight']_vars

\* C3: for every non-genesis node n of the block index, looking up n's block's
\* ParentHash in the index gives n.parent, and n.height = n.parent.height + 1.
C3_ChainIntegrity ==
    \A n \in Indexed :
        nodes[n].parent # NoNode =>
            /\ LookupNode(bi, nodes[n].block.ParentHash) = nodes[n].parent
            /\ nodes[n].height = nodes[nodes[n].parent].height + 1

\* C4: every successful push_block (the genesis push of new_chain included)
\* leaves state.Height one above the Height before the call, and state.Head
\* equal to the pushed block's hash.
C4_MonotonicHead ==
    [][/\ \A b \in OfferedBlocks, f \in StoreFaults :
              (CallPushBlock(b, f) /\ ret'.err = "nil")
                  => (state'.Height = state.Height + 1 /\ state'.Head = b.BlockHash)
       /\ (ret'.op = "NewChain" /\ ret'.err = "nil")
              => (state.Height = -1 /\ state'.Height = 0
                  /\ state'.Head = Genesis.BlockHash)]_vars

\* C5: load_chain yields the state (Head, Height, tip node), the block index
\* and the query index that the chain which produced the store held in memory.
C5_RestartEquivalence ==
    [][(chain = "open" /\ ret'.op = "LoadChain" /\ ret'.err = "nil")
          => (/\ state' = state
              /\ \A h \in DOMAIN bi :
                     /\ h \in DOMAIN bi'
                     /\ nodes'[bi'[h]].height = nodes[bi[h]].height
              /\ qi' = qi)]_vars

\* The errors of the checks CheckAndPushNewBlock makes before it pushes.
CheckErrors ==
    {"InvalidBlock", "BlockExists", "BlockTimestampOutOfPeriod",
     "MultipleAcksInBlocks", "VerifyFailed"}

\* C14: whenever check_and_push_new_block returns InvalidBlock, BlockExists,
\* BlockTimestampOutOfPeriod, MultipleAcksInBlocks or a verification failure,
\* state, the block index, the query index and the store are unchanged.
C14_RejectedBlockChangesNothing ==
    [][(ret'.op = "CheckAndPushNewBlock" /\ ret'.err \in CheckErrors)
          => (state' = state /\ nodes' = nodes /\ bi' = bi /\ qi' = qi /\ db' = db)]_vars

\* C14 witness: a block was refused because one of its acks is already signed
\* by another block, on a chain that holds a block above genesis.
C14_Witness ==
    /\ ret = [op |-> "CheckAndPushNewBlock", err |-> "MultipleAcksInBlocks"]
    /\ state.Height >= 1

\* The block of the blocks bucket at height h of the best chain.
StoredAt(h) == db.blocks[indexKey(nodes[ancestor(nodes, state.node, h)])]

\* C15: fetch_block(h) returns, without error or fault, the block stored at
\* height h of the best chain for 0 <= h <= state.Height, and no block for any
\* other h.
C15_FetchBlockReturnsStored ==
    [][ret'.op = "FetchBlock" =>
          IF 0 <= ret'.height /\ ret'.height <= state.Height
          THEN /\ ~panicked'
               /\ ret'.err = "nil"
               /\ ret'.b = StoredAt(ret'.height)
          ELSE ret'.b = NoBlock /\ ~panicked']_vars

GenesisBlocks == {Genesis, [Genesis EXCEPT !.signed = FALSE]}

\* C16: new_chain with a genesis block that verifies as genesis returns a chain
\* with Head the genesis block hash and Height 0, the genesis block indexed at
\* height 0 and the only block of the store; with a genesis block that fails
\* verification it returns the error and no chain.
C16_GenesisBootstrap ==
    [][\A g \in GenesisBlocks, f \in NewChainFaults :
          NewChain(g, f) =>
              IF VerifyAsGenesis(g)
              THEN /\ f = "none" => ret'.err = "nil"
                   /\ ret'.err # "nil" => chain' = "none"
                   /\ ret'.err = "nil" =>
                        /\ chain' = "open"
                        /\ state'.Head = g.BlockHash
                        /\ state'.Height = 0
                        /\ HasBlock(bi', g.BlockHash)
                        /\ nodes'[state'.node] = newBlockNode(<<>>, g, NoNode)
                        /\ db'.blocks = (indexKey(nodes'[state'.node]) :> g)
                        /\ db'.state = <<MarshalState(state')>>
              ELSE ret'.err = "VerifyFailed" /\ chain' = "none" /\ db' = db]_vars

\* C16 witness: a chain was returned and holds the genesis block alone.
C16_Witness ==
    /\ ret = [op |-> "NewChain", err |-> "nil"]
    /\ chain = "open"
    /\ DOMAIN bi = {Genesis.BlockHash}

\* The nodes allocated for the block with the given hash.
NodesOf(hash) == {i \in 1..Len(nodes) : nodes[i].hash = hash}

\* C20: check_and_push_new_block of a block whose hash is in the block index
\* is rejected, with InvalidBlock when its ParentHash is not state.Head and
\* with BlockExists when it is, and adds no node and no store entry.
C20_DuplicateRejected ==
    [][\A p \in Callers :
          /\ \A b \in OfferedBlocks :
                (/\ HasBlock(bi, b.BlockHash)
                 /\ b.ParentHash # state.Head
                 /\ CheckParent(p, b))
                    => (/\ ret' = [op |-> "CheckAndPushNewBlock", err |-> "InvalidBlock"]
                        /\ pc'[p] = "idle"
                        /\ nodes' = nodes /\ bi' = bi /\ db' = db)
          /\ (/\ pc[p] = "checks"
              /\ pc'[p] # "checks"
              /\ HasBlock(bi, loc[p].b.BlockHash))
                 => (/\ ret' = [op |-> "CheckAndPushNewBlock", err |-> "BlockExists"]
                     /\ pc'[p] = "idle"
                     /\ nodes' = nodes /\ bi' = bi /\ db' = db)]_vars

\* C20 witness: a block the producer had pushed was offered again and refused
\* with BlockExists, and it has one node.
C20_Witness ==
    /\ ret = [op |-> "CheckAndPushNewBlock", err |-> "BlockExists"]
    /\ Cardinality(NodesOf(state.Head)) = 1
    /\ state.Height = 1

\* C21: every block admitted by check_and_push_new_block has
\* height_from_time(Timestamp) = state.Height + 1 at admission, and that number
\* is its node height, the height in its store key and the height under which
\* its acks are recorded; a block that extends the head, is not indexed and has
\* any other timestamp gets BlockTimestampOutOfPeriod.
C21_AdmittedAtNextHeight ==
    [][\A b \in OfferedBlocks, f \in StoreFaults :
          LET h == GetHeightFromTime(b.Timestamp) IN
          (/\ ret'.op = "CheckAndPushNewBlock"
           /\ CallCheckAndPushNewBlock(b, f))
              => /\ ret'.err = "nil" =>
                       /\ h = state.Height + 1
                       /\ nodes'[state'.node].height = h
                       /\ state'.Height = h
                       /\ (<<h>> \o b.BlockHash) \in DOMAIN db'.blocks
                       /\ \A i \in 1..Len(b.Queries) :
                              /\ <<h, b.Queries[i]>> \in DOMAIN qi'.acks
                              /\ b.BlockHash \in qi'.acks[<<h, b.Queries[i]>>].blocks
                 /\ (/\ b.ParentHash = state.Head
                     /\ ~HasBlock(bi, b.BlockHash)
                     /\ h # state.Height + 1)
                        => ret'.err = "BlockTimestampOutOfPeriod"]_vars

\* The stored blocks, and whether one of them has the given hash.
StoredBlocks == {db.blocks[k] : k \in DOMAIN db.blocks}
IsStored(hash) == \E b \in StoredBlocks : b.BlockHash = hash

\* C22: load_chain fails with ParentNotFound only if a stored block's
\* ParentHash is the hash of no stored block, and on success every stored
\* block has a node in the block index whose parent is the node of the block
\* with its ParentHash.
C22_LoadResolvesParents ==
    [][ret'.op = "LoadChain" =>
          /\ ret'.err = "ParentNotFound" =>
                 \E b \in StoredBlocks :
                     b.ParentHash # ZeroHash /\ ~IsStored(b.ParentHash)
          /\ ret'.err = "nil" =>
                 \A b \in StoredBlocks :
                     /\ HasBlock(bi', b.BlockHash)
                     /\ b.ParentHash # ZeroHash =>
                            nodes'[bi'[b.BlockHash]].parent = LookupNode(bi', b.ParentHash)]_vars

\* C29: a chain returned by load_chain has the clock configuration new_chain
\* gives, ChainInitTime equal to the genesis timestamp, and a NextTurn above
\* the loaded state.Height.
C29_LoadedClockConfiguration ==
    [][(ret'.op = "LoadChain" /\ ret'.err = "nil") =>
          /\ ChainInitTime' = Genesis.Timestamp
          /\ NextTurn' > state'.Height]_vars

---------------------------------------------------------------------------
\* Claims about queries.

\* The acks recorded in acks[h] that reference the response with hash r.
AcksOf(q, h, r) ==
    {k \in DOMAIN q.acks :
        /\ k[1] = h
        /\ q.acks[k].ack # NoAck
        /\ q.acks[k].ack.Response.HeaderHash = r}

AtMostOneAck(q) ==
    \A k \in DOMAIN q.resps : Cardinality(AcksOf(q, k[1], k[2])) <= 1

\* C6: for every height h and response r at most one ack recorded in acks[h]
\* references r, and a push of a second, different ack for r fails with
\* MultipleAcks (with the store's error when the write of the ack fails
\* before the index is asked).
C6_AtMostOneAckPerResponse ==
    [][/\ AtMostOneAck(qi')
       /\ \A a \in OfferedAcks, f \in StoreFaults :
              LET h == GetHeightFromTime(a.Response.Timestamp) IN
              (/\ ret'.op = "PushAckedQuery"
               /\ \E k \in AcksOf(qi, h, a.Response.HeaderHash) : k[2] # a.HeaderHash
               /\ CallPushAckedQuery(a, f))
                  => (/\ ret'.err = IF f = "put" THEN "StoreFailure" ELSE "MultipleAcks"
                      /\ qi' = qi
                      /\ db' = db)]_vars

\* C6 witness: a second, different ack for a response that has one was refused.
C6_Witness ==
    /\ ret = [op |-> "PushAckedQuery", err |-> "MultipleAcks"]
    /\ \E k \in DOMAIN qi.resps : Cardinality(AcksOf(qi, k[1], k[2])) = 1

\* C7: every ack recorded by push_acked_query is recorded at the height derived
\* from the request timestamp of the response it wraps, the height at which
\* push_responded_query records that response.
C7_AckAtRequestHeight ==
    \A k \in DOMAIN qi.acks :
        qi.acks[k].ack # NoAck =>
            k[1] = GetHeightFromTime(qi.acks[k].ack.Response.ReqTimestamp)

\* C8: verify_and_push_responded_query and verify_and_push_acked_query return
\* QueryExpired and record nothing in the store or the query index for every
\* header whose response timestamp ts has height_from_time(ts) < NextTurn - QueryTTL.
C8_ExpiredRejected ==
    [][/\ \A r \in OfferedResponses, f \in StoreFaults :
              (/\ ret'.op = "VerifyAndPushResponsedQuery"
               /\ GetHeightFromTime(r.Timestamp) < NextTurn - QueryTTL
               /\ CallVerifyAndPushResponsedQuery(r, f))
                  => (ret'.err = "QueryExpired" /\ db' = db /\ qi' = qi)
       /\ \A a \in OfferedAcks, f \in StoreFaults :
              (/\ ret'.op = "VerifyAndPushAckedQuery"
               /\ GetHeightFromTime(a.Response.Timestamp) < NextTurn - QueryTTL
               /\ CallVerifyAndPushAckedQuery(a, f))
                  => (ret'.err = "QueryExpired" /\ db' = db /\ qi' = qi
                      /\ pendingBlock' = pendingBlock)]_vars

\* C8 witness: an ack whose response is older than NextTurn - QueryTTL was
\* refused after an ack of a fresher response had been recorded.
C8_Witness ==
    /\ ret = [op |-> "VerifyAndPushAckedQuery", err |-> "QueryExpired"]
    /\ NextTurn - QueryTTL > 1
    /\ DOMAIN qi.acks # {}

InSeq(x, q) == \E i \in 1..Len(q) : q[i] = x

\* C17: when push_acked_query of an ack A2 fails with MultipleAcks, A2 is in
\* neither the acks bucket of the store nor the index (fetch_acked_query gives
\* AckNotFound), A2's hash is not in the pending block's Queries, and every ack
\* that fetch_acked_query returned before is still returned.
C17_RefusedAckLeavesNoTrace ==
    [][\A a \in OfferedAcks, f \in StoreFaults :
          LET h == GetHeightFromTime(a.Response.Timestamp) IN
          (/\ ret'.op = "PushAckedQuery"
           /\ ret'.err = "MultipleAcks"
           /\ CallPushAckedQuery(a, f))
              => /\ <<h, a.HeaderHash>> \notin DOMAIN db'.acks
                 /\ FetchAckedQuery(Cur', h, a.HeaderHash).err = "AckNotFound"
                 /\ ~InSeq(a.HeaderHash, pendingBlock'.Queries)
                 /\ \A k \in DOMAIN qi.acks :
                        FetchAckedQuery(Cur', k[1], k[2]) = FetchAckedQuery(Cur, k[1], k[2])
                 /\ \E k \in DOMAIN qi.acks :
                        /\ k[1] = h
                        /\ FetchAckedQuery(Cur', h, k[2]).ack.Response = a.Response]_vars

\* C17 witness: the node is the producer of the turn, the first ack of a
\* response is in its pending block, and a second ack was refused.
C17_Witness ==
    /\ ret = [op |-> "PushAckedQuery", err |-> "MultipleAcks"]
    /\ isMyTurn
    /\ Len(pendingBlock.Queries) = 1
    /\ DOMAIN db.acks # {}

\* C18: when push_acked_query(ack) returns success, fetch_acked_query at the
\* ack's height with its header hash returns the ack and the response it wraps
\* is in the responses of that height; and both stay so after every later call.
C18_AckedQueryStaysVisible ==
    [][/\ \A a \in OfferedAcks, f \in StoreFaults :
            LET h == GetHeightFromTime(a.Response.Timestamp) IN
            (/\ ret'.op = "PushAckedQuery"
             /\ ret'.err = "nil"
             /\ CallPushAckedQuery(a, f))
                => /\ FetchAckedQuery(Cur', h, a.HeaderHash) = [ack |-> a, err |-> "nil"]
                   /\ <<h, a.Response.HeaderHash>> \in DOMAIN qi'.resps
                   /\ qi'.resps[<<h, a.Response.HeaderHash>>].header = a.Response
       /\ \A k \in DOMAIN qi.acks :
            FetchAckedQuery(Cur, k[1], k[2]).err = "nil"
                => LET old == FetchAckedQuery(Cur, k[1], k[2]).ack
                       rk == <<k[1], old.Response.HeaderHash>>
                   IN  /\ FetchAckedQuery(Cur', k[1], k[2]).ack = old
                       /\ rk \in DOMAIN qi'.resps
                       /\ qi'.resps[rk].header = old.Response]_vars

\* C18 witness: two acks of two responses are fetched back, the first one
\* after the push of the second.
C18_Witness ==
    /\ ret = [op |-> "PushAckedQuery", err |-> "nil"]
    /\ Cardinality({k \in DOMAIN qi.acks : FetchAckedQuery(Cur, k[1], k[2]).err = "nil"}) = 2

\* The ack hashes listed by the block of node i.
Listed(i) == {nodes[i].block.Queries[k] : k \in 1..Len(nodes[i].block.Queries)}

\* C24: each acknowledged query hash is in the Queries of at most one produced
\* block: a later produced block does not list an ack an earlier one listed.
C24_AckInOneProducedBlock ==
    \A i, j \in 1..Len(nodes) : i # j => Listed(i) \cap Listed(j) = {}

\* C26: under any interleaving of produce_block with push_acked_query calls
\* during this node's turn, the block produce_block stores and indexes has the
\* Queries its signature and block hash cover: no ack hash appended to the
\* pending block between the signing and the push reaches the store or the index.
C26_ProducedBlockAsSigned ==
    /\ \A k \in DOMAIN db.blocks : Verify(db.blocks[k])
    /\ \A i \in 1..Len(nodes) : Verify(nodes[i].block)

\* C27: every response recorded through verify_and_push_responded_query is
\* stored and indexed under a height h >= NextTurn - QueryTTL, NextTurn being
\* the one at the call.
C27_FreshResponseBucket ==
    [][\A r \in OfferedResponses, f \in StoreFaults :
          (/\ ret'.op = "VerifyAndPushResponsedQuery"
           /\ ret'.err = "nil"
           /\ CallVerifyAndPushResponsedQuery(r, f))
              => /\ \A k \in DOMAIN db'.resps :
                        db'.resps[k] = r => k[1] >= NextTurn - QueryTTL
                 /\ \A k \in DOMAIN qi'.resps :
                        qi'.resps[k].header = r => k[1] >= NextTurn - QueryTTL]_vars

\* C28: the pending block's Queries never holds the same ack header hash
\* twice: the re-push of an ack pushed before in this node's turn, which
\* add_ack accepts, does not append its hash again.
C28_PendingQueriesDistinct ==
    \A i, j \in 1..Len(pendingBlock.Queries) :
        pendingBlock.Queries[i] = pendingBlock.Queries[j] => i = j

---------------------------------------------------------------------------
\* Claims about turns and stopping.

\* C9: every call of run_current_turn increases NextTurn by exactly 1, whether
\* it was not this node's turn, produce_block succeeded or produce_block failed.
C9_TurnProgression ==
    [][ret'.op = "RunCurrentTurn" => NextTurn' = NextTurn + 1]_vars

\* C9 witness: a turn in which produce_block failed, after a turn in which it
\* succeeded, with NextTurn advanced by both.
C9_Witness ==
    /\ ret.op = "RunCurrentTurn"
    /\ ret.err \notin {"nil", "NotMyTurn"}
    /\ state.Height = 1
    /\ NextTurn = 3

\* C10: stop() may be called any number of times, also after the producer has
\* called it on a produce_block failure: it never faults and leaves the stop
\* signal set.
C10_StopIdempotent ==
    /\ ~panicked
    /\ ret.op = "Stop" => stopCh = "closed"

---------------------------------------------------------------------------
\* Claims about the producer loop.

\* C11: stop interrupts the sleep of the producer loop: when the stop channel
\* is closed while the loop sleeps, the loop can leave the sleep at once,
\* without the sleep's duration having passed.
C11_StopInterruptsSleep ==
    (pc[Loop] = "sleep" /\ stopCh = "closed" /\ ~panicked) => ENABLED LoopStep

ProduceFailed == ret.err \notin {"nil", "NotMyTurn"}

\* C12: a turn of the loop in which produce_block fails sets the stop signal
\* and returns to the loop, and the loop at its select with the stop signal set
\* returns, starting no further turn.
C12_ProduceFailureStopsLoop ==
    [][/\ (pc[Loop] = "turn" /\ pc'[Loop] # "turn" /\ ProduceFailed')
            => (stopCh' = "closed" /\ ~panicked' /\ pc'[Loop] = "select")
       /\ (pc[Loop] = "select" /\ stopCh = "closed" /\ pc'[Loop] # "select")
            => pc'[Loop] = "returned"
       /\ pc[Loop] = "returned" => (pc'[Loop] = "returned" /\ db' = db)]_vars

\* C13: once the stop channel is closed the loop eventually returns, and it
\* starts no turn body but the one it had chosen before the close.
C13_StopTerminatesLoop ==
    /\ [][(stopCh = "closed" /\ pc[Loop] \in {"start", "select", "sleep"})
             => pc'[Loop] \notin {"till", "turn"}]_vars
    /\ (stopCh = "closed") ~> (pc[Loop] = "returned")

\* The start of turn NextTurn.
TurnStart == ChainInitTime + NextTurn * Period

Min(a, b) == IF a < b THEN a ELSE b

\* C23: the producer loop runs the body of turn n = NextTurn only with a time
\* reading t >= ChainInitTime + n * Period, which it passes to the turn;
\* otherwise it sleeps min(ChainInitTime + n * Period - t, TimeResolution) and
\* goes back to its select.
C23_TurnRunsAtItsTime ==
    [][/\ (pc[Loop] = "till" /\ pc'[Loop] # "till") =>
              IF clock >= TurnStart
              THEN pc'[Loop] = "turn" /\ loc'[Loop].t = clock
              ELSE /\ pc'[Loop] = "sleep"
                   /\ loc'[Loop].wake - clock = Min(TurnStart - clock, TimeResolution)
       /\ (pc[Loop] = "turn" /\ pc'[Loop] # "turn") =>
              /\ loc[Loop].t >= TurnStart
              /\ (ret'.err = "nil" => nodes'[state'.node].block.Timestamp = loc[Loop].t)
       /\ (pc[Loop] = "sleep" /\ pc'[Loop] # "sleep") =>
              /\ pc'[Loop] = "select"
              /\ clock >= loc[Loop].wake
              /\ NextTurn' = NextTurn]_vars

\* C23 witness: the loop has run turns 1 and 2, the second one producing a
\* block, and sleeps a TimeResolution towards turn 3.
C23_Witness ==
    /\ pc[Loop] = "sleep"
    /\ NextTurn = 3
    /\ ret = [op |-> "RunCurrentTurn", err |-> "nil"]
    /\ loc[Loop].wake = clock + TimeResolution

\* C25: every block the producer loop produces has
\* height_from_time(Timestamp) equal to its node height, state.Height before
\* the push plus 1, also after turns in which this node did not produce.
\* Stated for the turns the loop runs with a reading inside the turn's period.
C25_ProducedBlockInItsPeriod ==
    [][(/\ pc[Loop] = "turn"
        /\ loc[Loop].t < TurnStart + Period
        /\ ret'.op = "RunCurrentTurn"
        /\ ret'.err = "nil") =>
          /\ nodes'[state'.node].height = state.Height + 1
          /\ GetHeightFromTime(nodes'[state'.node].block.Timestamp) = state.Height + 1]_vars

---------------------------------------------------------------------------
\* Claims about the Runtime lock.

RuntimeWrites == {"wNextTurn", "wOffset", "close"}
RuntimeReads == {"rOffset", "rNextTurn"}

\* C19: every access to a Runtime field is made under the Runtime lock, writes
\* holding it exclusively and reads at least shared, and no read of NextTurn
\* overlaps the write of SetNextTurn.
C19_RuntimeAccessLocked ==
    /\ \A p \in Goroutines : pc[p] \in RuntimeWrites => loc[p].held = "exclusive"
    /\ \A p \in Goroutines : pc[p] \in RuntimeReads => loc[p].held # "none"
    /\ \A p, q \in Goroutines : ~(pc[p] = "wNextTurn" /\ pc[q] = "rNextTurn")

====
